---- MODULE Spec2Model ----
(***************************************************************************)
(* Model of src/app.py: the /process request handler (cut, caption          *)
(* burn-in, publish), the caption synthesizer create_copernicus_ass, the    *)
(* /generate_srt handler and the two timestamp formatters.                  *)
(*                                                                          *)
(* Times.  The program's times are Python floats (seconds) or numbers taken *)
(* from the request.  The model counts every time in thousandths of the     *)
(* program's unit, as an integer: the segment {start: 0, end: 5} is         *)
(* [start |-> 0, end |-> 5000].  Python's // and % floor, as \div and % do. *)
(* Text.  A text is a sequence of one-character strings, so that strip,     *)
(* lower, upper and isalnum are computed character by character.            *)
(***************************************************************************)
EXTENDS Integers, Sequences, FiniteSets, TLC

VARIABLES
    pc,           \* position of the /process handler
    req,          \* the request body being handled
    tmpdir,       \* "none" | "open" | "removed": the TemporaryDirectory
    files,        \* files in the scratch directory: set of <<path, content>>
    output_path,  \* the local variable output_path (the file to publish)
    markup,       \* Dialogue events written to the caption file
    events,       \* external effects so far, in order
    results,      \* the local list results
    response,     \* the HTTP response, status 0 while none was sent
    cin,          \* input of a caption operation: words, keywords, times
    cpc,          \* "ready" | "done": whether the caption operation has run
    cout          \* what the caption operation produced

pvars == <<pc, req, tmpdir, files, output_path, markup, events, results, response>>
cvars == <<cin, cpc, cout>>
vars == <<pc, req, tmpdir, files, output_path, markup, events, results, response,
          cin, cpc, cout>>

MsPerSecond == 1000
Sec(n) == n * MsPerSecond

----------------------------------------------------------------------------
(* Python helpers *)

Last(s) == s[Len(s)]

\* the slice loses its last element
Slice_short(s, i, j) == SubSeq(s, i + 1, IF j - 1 < Len(s) THEN j - 1 ELSE Len(s))

\* words[i:j] with 0 <= i: the elements at 0-based positions i .. j-1
Slice(s, i, j) == SubSeq(s, i + 1, IF j < Len(s) THEN j ELSE Len(s))

RECURSIVE Join(_)
\* ' '.join(texts), as one sequence of characters
Join(texts) ==
    IF Len(texts) = 0 THEN <<>>
    ELSE IF Len(texts) = 1 THEN texts[1]
    ELSE texts[1] \o <<" ">> \o Join(Tail(texts))

\* round(num / den) for den > 0: Python 3 rounds ties to the even neighbour
PyRound(num, den) ==
    LET q == num \div den
        r == num % den
    IN  IF 2 * r < den THEN q
        ELSE IF 2 * r > den THEN q + 1
        ELSE IF q % 2 = 0 THEN q ELSE q + 1

Max(a, b) == IF a >= b THEN a ELSE b

\* f"{n:02d}" and f"{n:03d}": zero padding counts the sign in the width
Pad2(n) == IF n >= 0 /\ n < 10 THEN "0" \o ToString(n) ELSE ToString(n)
Pad3(n) ==
    IF n >= 0 /\ n < 10 THEN "00" \o ToString(n)
    ELSE IF n >= 10 /\ n < 100 THEN "0" \o ToString(n)
    ELSE IF n < 0 /\ n > -10 THEN "-0" \o ToString(0 - n)
    ELSE ToString(n)

----------------------------------------------------------------------------
(* Text *)

UpperCase == <<"A", "B", "E", "L", "M", "O", "R">>
LowerCase == <<"a", "b", "e", "l", "m", "o", "r">>
Letters == 1..Len(UpperCase)

IsUpper(c) == \E i \in Letters : UpperCase[i] = c
IsLower(c) == \E i \in Letters : LowerCase[i] = c
IsSpace(c) == c = " "
\* str.isalnum on one character: letters and digits
IsAlnum(c) == IsUpper(c) \/ IsLower(c) \/ c = "9"

LowerChar(c) == IF IsUpper(c) THEN LowerCase[CHOOSE i \in Letters : UpperCase[i] = c] ELSE c
UpperChar(c) == IF IsLower(c) THEN UpperCase[CHOOSE i \in Letters : LowerCase[i] = c] ELSE c

Lower(s) == [i \in 1..Len(s) |-> LowerChar(s[i])]
Upper(s) == [i \in 1..Len(s) |-> UpperChar(s[i])]

RECURSIVE LStrip(_)
LStrip(s) == IF Len(s) > 0 /\ IsSpace(s[1]) THEN LStrip(Tail(s)) ELSE s
RECURSIVE RStrip(_)
RStrip(s) == IF Len(s) > 0 /\ IsSpace(s[Len(s)]) THEN RStrip(SubSeq(s, 1, Len(s) - 1)) ELSE s
Strip(s) == RStrip(LStrip(s))

\* ''.join(c for c in s if c.isalnum())
AlnumOnly(s) == SelectSeq(s, IsAlnum)

----------------------------------------------------------------------------
(* Timestamp formatters.  t is the argument counted in thousandths of a     *)
(* second: format_ass_time(t / 1000) and format_srt_time(t).                *)

format_ass_time(t) ==
    LET hours == t \div Sec(3600)
        minutes == (t % Sec(3600)) \div Sec(60)
        secs == (t % Sec(60)) \div Sec(1)
        rounded == PyRound(t % Sec(1), 10)
        centis == IF rounded >= 100 THEN 99 ELSE rounded
    IN  ToString(hours) \o ":" \o Pad2(minutes) \o ":" \o Pad2(secs) \o "." \o Pad2(centis)

format_srt_time(milliseconds) ==
    LET hours == milliseconds \div Sec(3600)
        minutes == (milliseconds % Sec(3600)) \div Sec(60)
        secs == (milliseconds % Sec(60)) \div Sec(1)
        millis == milliseconds % Sec(1)
    IN  Pad2(hours) \o ":" \o Pad2(minutes) \o ":" \o Pad2(secs) \o "," \o Pad3(millis)

----------------------------------------------------------------------------
(* Caption chunking and synthesis *)

chunk_size == 4
max_chars_per_line == 24

RECURSIVE ChunksFrom(_, _, _)
\* for i in range(i, len(words), n): chunks.append(words[i:i + n])
ChunksFrom(words, i, n) ==
    IF i >= Len(words) THEN <<>>
    ELSE <<Slice(words, i, i + n)>> \o ChunksFrom(words, i + n, n)

Chunks(words, n) == ChunksFrom(words, 0, n)

\* keywords_clean: the string keywords, lower-cased and stripped
KeywordsClean(keywords) ==
    LET strs == SelectSeq(keywords, LAMBDA kw : kw.str)
    IN  [i \in 1..Len(strs) |-> Strip(Lower(strs[i].text))]

\* the word is compared with its punctuation left in
IsKeyword_raw(word, keywords_clean) ==
    LET word_lower == Lower(Strip(word.text))
    IN  \E i \in 1..Len(keywords_clean) : word_lower = AlnumOnly(keywords_clean[i])

\* the is_keyword loop of one word
IsKeyword(word, keywords_clean) ==
    LET word_lower == Lower(Strip(word.text))
        word_clean == AlnumOnly(word_lower)
    IN  \E i \in 1..Len(keywords_clean) : word_clean = AlnumOnly(keywords_clean[i])

\* one entry of words_in_chunk; style and kf stand for the override tags
\* {\rKeyword\kf<n>}TEXT{\rDefault} and {\kf<n>}TEXT of the field 'styled'
StyledWord(word, keywords_clean) ==
    LET word_text == Upper(Strip(word.text))
        word_duration_centis == Max(1, PyRound(word.end - word.start, 10))
        is_keyword == IsKeyword(word, keywords_clean)
    IN  [text |-> word_text,
         style |-> IF is_keyword THEN "Keyword" ELSE "Default",
         kf |-> word_duration_centis,
         is_keyword |-> is_keyword]

\* the Dialogue line of one chunk; lines are separated by \N in styled_text
DialogueLine(chunk, segment_start, keywords_clean) ==
    LET start_time == chunk[1].start - segment_start
        end_time == Last(chunk).end - segment_start
        words_in_chunk == [i \in 1..Len(chunk) |-> StyledWord(chunk[i], keywords_clean)]
        total_text == Join([i \in 1..Len(chunk) |-> words_in_chunk[i].text])
        mid == Len(words_in_chunk) \div 2
    IN  [layer |-> 0,
         start |-> format_ass_time(Max(0, start_time)),
         end |-> format_ass_time(Max(0, end_time)),
         style |-> "Default",
         lines |-> IF Len(total_text) > max_chars_per_line /\ Len(words_in_chunk) > 1
                   THEN <<SubSeq(words_in_chunk, 1, mid),
                          SubSeq(words_in_chunk, mid + 1, Len(words_in_chunk))>>
                   ELSE <<words_in_chunk>>]

\* the [Events] section written by create_copernicus_ass
create_copernicus_ass(words, segment_start, keywords) ==
    LET keywords_clean == KeywordsClean(keywords)
        chunks == SelectSeq(Chunks(words, chunk_size), LAMBDA chunk : Len(chunk) > 0)
    IN  [k \in 1..Len(chunks) |-> DialogueLine(chunks[k], segment_start, keywords_clean)]

RECURSIVE SrtBlocksFrom(_, _, _)
\* the loop of generate_srt: one numbered block per non-empty chunk
SrtBlocksFrom(words, i, subtitle_index) ==
    IF i >= Len(words) THEN <<>>
    ELSE LET chunk == Slice(words, i, i + chunk_size)
         IN  IF Len(chunk) = 0 THEN SrtBlocksFrom(words, i + chunk_size, subtitle_index)
             ELSE <<[index |-> subtitle_index,
                     start_time |-> format_srt_time(chunk[1].start),
                     end_time |-> format_srt_time(Last(chunk).end),
                     words |-> chunk,
                     text |-> Join([k \in 1..Len(chunk) |-> chunk[k].text])]>>
                  \o SrtBlocksFrom(words, i + chunk_size, subtitle_index + 1)

----------------------------------------------------------------------------
(* Requests of /process *)

Seg(a, b) == [start |-> Sec(a), end |-> Sec(b)]
Word(text, a, b) == [text |-> text, start |-> a, end |-> b]
Kw(text) == [str |-> TRUE, text |-> text]
NonStringKw == [str |-> FALSE, text |-> <<>>]

Roma == <<"R", "o", "m", "a">>
bella == <<"b", "e", "l", "l", "a">>
RomaDot == <<"R", "o", "m", "a", ".">>
PaddedBella == <<" ", "b", "e", "l", "l", "a", " ">>
roma == <<"r", "o", "m", "a">>
ROMA == <<"R", "O", "M", "A">>
BELLA == <<"B", "E", "L", "L", "A">>

NoUrl == ""
Url == "https://host/clips/v.mp4"
\* video_url.split('/')[-1]
Filename(video_url) == IF video_url = Url THEN "v.mp4" ELSE video_url

\* word lists a request may carry; times are thousandths of the request's numbers
WordsMs == <<Word(Roma, Sec(0), Sec(400)), Word(bella, Sec(400), Sec(900))>>
WordsSec == <<Word(Roma, 0, 400), Word(bella, 400, 900)>>
WordsPunct == <<Word(RomaDot, 100, 400), Word(PaddedBella, 400, 900), Word(roma, 5200, 5600)>>
RequestWords == {<<>>, WordsMs, WordsSec, WordsPunct}

RequestKeywords == {<<>>, <<Kw(roma)>>, <<NonStringKw, Kw(<<" ", "R", "O", "M", "A", ".">>)>>}

TwoSegments == <<Seg(0, 5), Seg(10, 12)>>
ThreeSegments == <<Seg(0, 5), Seg(10, 12), Seg(20, 21)>>
SegmentLists ==
    {<<>>, <<Seg(0, 1)>>, TwoSegments, ThreeSegments, <<Seg(5, 5)>>, <<Seg(0, 5), Seg(5, 3)>>}
\* the field "segments": missing from the body, or a list
MissingSegments == [given |-> FALSE, list |-> <<>>]
RequestSegments == {MissingSegments} \cup {[given |-> TRUE, list |-> l] : l \in SegmentLists}

\* a segment_index / output_index field: absent, a JSON number, or a JSON string
Absent == [kind |-> "absent", val |-> 0]
IntIdx(n) == [kind |-> "int", val |-> n]
StrIdx(n) == [kind |-> "str", val |-> n]
BadStrIdx == [kind |-> "badstr", val |-> 0]
MaxIdx == 3
SegmentIndexes == {Absent, BadStrIdx, StrIdx(1)} \cup {IntIdx(n) : n \in (0 - MaxIdx - 1)..MaxIdx}
OutputIndexes == {Absent, IntIdx(7)}

Requests ==
    [video_url : {NoUrl, Url},
     segments : RequestSegments,
     words : RequestWords,
     keywords : RequestKeywords,
     segment_index : SegmentIndexes,
     output_index : OutputIndexes,
     s3 : BOOLEAN]

NoRequest ==
    [video_url |-> NoUrl, segments |-> MissingSegments, words |-> <<>>,
     keywords |-> <<>>, segment_index |-> Absent, output_index |-> Absent, s3 |-> FALSE]

----------------------------------------------------------------------------
(* Locals of process_video, as functions of the request *)

\* data.get("segments"): None when the key is missing
Segments(r) == IF r.segments.given THEN r.segments.list ELSE <<>>

\* a missing segment_index selects the second segment
RawSegmentIdx_second(r) == IF r.segment_index.kind = "absent" THEN IntIdx(1) ELSE r.segment_index

\* data.get("segment_index", 0) and data.get("output_index", segment_idx)
RawSegmentIdx(r) == IF r.segment_index.kind = "absent" THEN IntIdx(0) ELSE r.segment_index
RawOutputIdx(r) == IF r.output_index.kind = "absent" THEN RawSegmentIdx(r) ELSE r.output_index

\* int(s) raises ValueError on a string that is not an integer literal
ConversionRaises(r) == RawSegmentIdx(r).kind = "badstr" \/ RawOutputIdx(r).kind = "badstr"
SegmentIdx(r) == RawSegmentIdx(r).val
OutputIdx(r) == RawOutputIdx(r).val

\* segments[segment_idx]: a negative index counts from the end of the list,
\* an index below -len(segments) raises IndexError
IndexRaises(r) == SegmentIdx(r) < 0 - Len(Segments(r))
TargetSegment(r) ==
    IF SegmentIdx(r) >= 0 THEN Segments(r)[SegmentIdx(r) + 1]
    ELSE Segments(r)[Len(Segments(r)) + SegmentIdx(r) + 1]

Start(r) == TargetSegment(r).start
End(r) == TargetSegment(r).end
Duration(r) == End(r) - Start(r)

\* [w for w in all_words if w['start'] >= start and w['start'] < end]
SegmentWords(r) == SelectSeq(r.words, LAMBDA w : w.start >= Start(r) /\ w.start < End(r))

VideoPath == "input.mp4"
TempSegmentPath(r) == "temp_segment_" \o ToString(OutputIdx(r)) \o ".mp4"
OutputPath(r) == "output_" \o ToString(OutputIdx(r)) \o ".mp4"
AssPath(r) == "segment_" \o ToString(OutputIdx(r)) \o ".ass"
OutputKey(r) == "segment_" \o ToString(OutputIdx(r)) \o "_" \o Filename(r.video_url)

----------------------------------------------------------------------------
(* Scratch directory *)

Exists(fs, path) == \E f \in fs : f[1] = path
Content(fs, path) == (CHOOSE f \in fs : f[1] = path)[2]
WriteFile(fs, path, content) == {f \in fs : f[1] # path} \cup {<<path, content>>}
\* os.remove inside try/except: a missing file is ignored
RemoveFile(fs, path) == {f \in fs : f[1] # path}
\* the directory is left behind
Cleanup_skipped(fs) == fs

\* TemporaryDirectory.__exit__: the directory and all it holds are deleted
Cleanup(fs) == {}

----------------------------------------------------------------------------
(* Responses *)

NoResponse == [status |-> 0, success |-> FALSE, error |-> "", results |-> <<>>]
ErrorResponse(status, error) ==
    [status |-> status, success |-> FALSE, error |-> error, results |-> <<>>]
SuccessResponse(res) == [status |-> 200, success |-> TRUE, error |-> "", results |-> res]

\* a return or a raise before the with block is entered
Reject(resp) ==
    /\ pc' = "done"
    /\ response' = resp
    /\ UNCHANGED <<tmpdir, files, output_path, markup, events, results>>

\* a return or a raise inside the with block: the block exits first
Leave(resp) ==
    /\ pc' = "done"
    /\ response' = resp
    /\ tmpdir' = "removed"
    /\ files' = Cleanup(files)

\* except Exception as e: return jsonify({"error": str(e)}), 500
Raised == ErrorResponse(500, "exception")

----------------------------------------------------------------------------
(* The /process handler, one action per blocking step *)

Outcomes == {"ok", "fail", "raise"}

\* an external effect: a tool run (with its -t argument), a download, an upload
Event(op, outcome, duration, content) ==
    [op |-> op, outcome |-> outcome, duration |-> duration, content |-> content]

InitProcess ==
    /\ pc = "idle"
    /\ req = NoRequest
    /\ tmpdir = "none"
    /\ files = {}
    /\ output_path = ""
    /\ markup = <<>>
    /\ events = <<>>
    /\ results = <<>>
    /\ response = NoResponse

\* request parsing and validation, up to the creation of the scratch directory
Receive(r) ==
    /\ pc = "idle"
    /\ req' = r
    /\ IF ConversionRaises(r) THEN Reject(Raised)
       ELSE IF Len(Segments(r)) = 0 THEN Reject(ErrorResponse(400, "Missing segments"))
       ELSE IF r.video_url = NoUrl THEN Reject(ErrorResponse(400, "Missing video_url"))
       ELSE IF ~r.s3 THEN Reject(ErrorResponse(500, "S3 client not configured"))
       ELSE IF SegmentIdx(r) >= Len(Segments(r))
            THEN Reject(ErrorResponse(400, "segment_index out of range"))
       ELSE IF IndexRaises(r) THEN Reject(Raised)
       ELSE /\ pc' = "cut"
            /\ tmpdir' = "open"
            /\ output_path' = OutputPath(r)
            /\ results' = <<>>
            /\ UNCHANGED <<files, markup, events, response>>

\* the cut that reads the URL directly
DirectCut(outcome, partial) ==
    /\ pc = "cut"
    /\ events' = Append(events, Event("cut", outcome, Duration(req), "url"))
    /\ CASE outcome = "ok" ->
              /\ files' = WriteFile(files, TempSegmentPath(req), "cut")
              /\ pc' = "caption"
              /\ UNCHANGED <<tmpdir, response>>
         [] outcome = "fail" ->
              /\ files' = IF partial THEN WriteFile(files, TempSegmentPath(req), "partial")
                          ELSE files
              /\ pc' = "download"
              /\ UNCHANGED <<tmpdir, response>>
         [] outcome = "raise" -> Leave(Raised)
    /\ UNCHANGED <<req, output_path, markup, results>>

\* urllib.request.urlretrieve(video_url, video_path)
Download(outcome) ==
    /\ pc = "download"
    /\ outcome \in {"ok", "raise"}
    /\ events' = Append(events, Event("download", outcome, 0, "source"))
    /\ IF outcome = "ok"
       THEN /\ files' = WriteFile(files, VideoPath, "source")
            /\ pc' = "fallback_cut"
            /\ UNCHANGED <<tmpdir, response>>
       ELSE Leave(Raised)
    /\ UNCHANGED <<req, output_path, markup, results>>

\* the download is kept
AfterFallbackCut_kept(fs) == fs

\* what follows a fallback cut that exited with 0: the download is deleted
AfterFallbackCut(fs) == RemoveFile(fs, VideoPath)

\* the failed fallback cut is only logged and the run goes on
FallbackCutFailed_ignored ==
    /\ pc' = "caption"
    /\ UNCHANGED <<tmpdir, files, response>>

\* what follows a fallback cut that exited non-zero
FallbackCutFailed == Leave(ErrorResponse(500, "FFmpeg error"))

\* the cut that reads the downloaded copy
FallbackCut(outcome) ==
    /\ pc = "fallback_cut"
    /\ events' = Append(events, Event("fallback_cut", outcome, Duration(req), "file"))
    /\ CASE outcome = "ok" ->
              /\ files' = AfterFallbackCut(WriteFile(files, TempSegmentPath(req), "cut"))
              /\ pc' = "caption"
              /\ UNCHANGED <<tmpdir, response>>
         [] outcome = "fail" -> FallbackCutFailed
         [] outcome = "raise" -> Leave(Raised)
    /\ UNCHANGED <<req, output_path, markup, results>>

\* if segment_words: write the caption file; else publish the cut as it is
Caption(outcome) ==
    /\ pc = "caption"
    /\ outcome \in {"ok", "raise"}
    /\ IF SegmentWords(req) # <<>>
       THEN IF outcome = "ok"
            THEN /\ markup' = create_copernicus_ass(SegmentWords(req), Start(req), req.keywords)
                 /\ files' = WriteFile(files, AssPath(req), "ass")
                 /\ pc' = "burn"
                 /\ UNCHANGED <<tmpdir, response, output_path>>
            ELSE /\ Leave(Raised)
                 /\ UNCHANGED <<markup, output_path>>
       ELSE /\ outcome = "ok"
            /\ output_path' = TempSegmentPath(req)
            /\ pc' = "upload"
            /\ UNCHANGED <<tmpdir, files, response, markup>>
    /\ UNCHANGED <<req, events, results>>

\* the subtitle tool run; its exit code is only logged, then the cut is deleted
Burn(outcome, partial) ==
    /\ pc = "burn"
    /\ events' = Append(events, Event("burn", outcome, 0, "file"))
    /\ CASE outcome = "ok" ->
              /\ files' = RemoveFile(WriteFile(files, OutputPath(req), "captioned"),
                                     TempSegmentPath(req))
              /\ pc' = "upload"
              /\ UNCHANGED <<tmpdir, response>>
         [] outcome = "fail" ->
              /\ files' = RemoveFile(IF partial
                                     THEN WriteFile(files, OutputPath(req), "partial")
                                     ELSE files,
                                     TempSegmentPath(req))
              /\ pc' = "upload"
              /\ UNCHANGED <<tmpdir, response>>
         [] outcome = "raise" -> Leave(Raised)
    /\ UNCHANGED <<req, output_path, markup, results>>

\* the entry appended to results
ResultEntry(r) ==
    [segment |-> OutputIdx(r),
     url |-> "https://cdn.vvcontent.com/" \o OutputKey(r),
     dropbox_path |-> "None",
     duration |-> Duration(r),
     actual_start |-> Start(r),
     requested_start |-> Start(r),
     pts_difference |-> 0]

\* s3.upload_file(output_path, ...), results.append(...), end of the with block
Upload(outcome) ==
    /\ pc = "upload"
    /\ outcome \in {"ok", "raise"}
    /\ IF Exists(files, output_path) /\ outcome = "ok"
       THEN /\ events' = Append(events, Event("upload", outcome, Duration(req),
                                              Content(files, output_path)))
            /\ results' = Append(results, ResultEntry(req))
            /\ Leave(SuccessResponse(results'))
       ELSE /\ events' = Append(events, Event("upload", "raise", Duration(req), "none"))
            /\ Leave(Raised)
            /\ UNCHANGED results
    /\ UNCHANGED <<req, output_path, markup>>


----------------------------------------------------------------------------
(* Caption operations on their own: /generate_srt, create_copernicus_ass    *)
(* and the two formatters, applied to inputs drawn from bounded sets.       *)

MaxWords == 9

LongBella == bella \o bella
Texts == <<Roma, bella, RomaDot, PaddedBella, LongBella, roma>>

\* a transcript of n words, the k-th spoken for a quarter of a second every
\* half second from base on.  Quarter seconds are exact in binary floating
\* point, so the integer arithmetic of the formatters above is the program's.
Transcript(n, base, shift) ==
    [k \in 1..n |-> Word(Texts[((k + shift) % Len(Texts)) + 1],
                         base + (k - 1) * 500,
                         base + (k - 1) * 500 + 250)]

Bases == {0 - 1500, 0 - 250, 0, 1000}
Shifts == {0, 1}
SegmentStarts == {0, 1000}
\* times handed to a formatter: around zero, and at the field boundaries
MaxTime == 12
TimeSamples ==
    ((0 - MaxTime)..MaxTime)
    \cup {0 - Sec(3600), 0 - Sec(60), 0 - 1500, 0 - 1000, 0 - 250,
          250, 999, 1000, 1500, 59999, Sec(60), Sec(3600), 3661500}

\* a transcript for the generators, or a time for the formatters
CaptionInputs ==
    [words : {Transcript(n, base, shift) : n \in 0..MaxWords, base \in Bases, shift \in Shifts},
     segment_start : SegmentStarts,
     keywords : RequestKeywords,
     time : {0},
     s3 : BOOLEAN]
    \cup
    [words : {<<>>},
     segment_start : {0},
     keywords : {<<>>},
     time : TimeSamples,
     s3 : {TRUE}]

NoCaptionInput ==
    [words |-> <<>>, segment_start |-> 0, keywords |-> <<>>, time |-> 0, s3 |-> FALSE]
NoCaptionOutput ==
    [op |-> "none", chunks |-> <<>>, lines |-> <<>>, text |-> "", tmp |-> FALSE,
     response |-> NoResponse]

CaptionOutput(op, chunks, lines, text, tmp, resp) ==
    [op |-> op, chunks |-> chunks, lines |-> lines, text |-> text, tmp |-> tmp,
     response |-> resp]

\* the /generate_srt handler; chunks are the slices the loop took, lines the
\* blocks of srt_content, tmp whether the temporary file is left on disk
GenerateSrt(outcome) ==
    /\ cpc = "ready"
    /\ outcome \in {"ok", "raise"}
    /\ cpc' = "done"
    /\ LET blocks == SrtBlocksFrom(cin.words, 0, 1)
           taken == [k \in 1..Len(blocks) |-> blocks[k].words]
       IN  cout' =
             IF Len(cin.words) = 0
             THEN CaptionOutput("srt", <<>>, <<>>, "", FALSE, ErrorResponse(400, "Missing words"))
             ELSE IF ~cin.s3
             THEN CaptionOutput("srt", <<>>, <<>>, "", FALSE,
                                ErrorResponse(500, "S3 client not configured"))
             ELSE IF outcome = "ok"
             THEN CaptionOutput("srt", taken, blocks, "", FALSE, SuccessResponse(<<>>))
             ELSE CaptionOutput("srt", taken, blocks, "", FALSE, Raised)
    /\ UNCHANGED cin

\* create_copernicus_ass(words, segment_start, output_path, keywords)
CreateAss ==
    /\ cpc = "ready"
    /\ cpc' = "done"
    /\ cout' = CaptionOutput("ass", Chunks(cin.words, chunk_size),
                             create_copernicus_ass(cin.words, cin.segment_start, cin.keywords),
                             "", FALSE, NoResponse)
    /\ UNCHANGED cin

FormatAssTime ==
    /\ cpc = "ready"
    /\ cpc' = "done"
    /\ cout' = CaptionOutput("ass_time", <<>>, <<>>, format_ass_time(cin.time), FALSE, NoResponse)
    /\ UNCHANGED cin

FormatSrtTime ==
    /\ cpc = "ready"
    /\ cpc' = "done"
    /\ cout' = CaptionOutput("srt_time", <<>>, <<>>, format_srt_time(cin.time), FALSE, NoResponse)
    /\ UNCHANGED cin

InitCaption ==
    /\ InitProcess
    /\ cin \in CaptionInputs
    /\ cpc = "ready"
    /\ cout = NoCaptionOutput

NextCaption ==
    \/ \E outcome \in Outcomes : GenerateSrt(outcome) /\ UNCHANGED pvars
    \/ CreateAss /\ UNCHANGED pvars
    \/ FormatAssTime /\ UNCHANGED pvars
    \/ FormatSrtTime /\ UNCHANGED pvars

SpecCaption == InitCaption /\ [][NextCaption]_vars

Init ==
    /\ InitProcess
    /\ cin = NoCaptionInput
    /\ cpc = "ready"
    /\ cout = NoCaptionOutput

Next ==
    \/ \E r \in Requests : Receive(r) /\ UNCHANGED cvars
    \/ \E outcome \in Outcomes, partial \in BOOLEAN :
           DirectCut(outcome, partial) /\ UNCHANGED cvars
    \/ \E outcome \in Outcomes : Download(outcome) /\ UNCHANGED cvars
    \/ \E outcome \in Outcomes : FallbackCut(outcome) /\ UNCHANGED cvars
    \/ \E outcome \in Outcomes : Caption(outcome) /\ UNCHANGED cvars
    \/ \E outcome \in Outcomes, partial \in BOOLEAN :
           Burn(outcome, partial) /\ UNCHANGED cvars
    \/ \E outcome \in Outcomes : Upload(outcome) /\ UNCHANGED cvars

Spec == Init /\ [][Next]_vars

----------------------------------------------------------------------------
(* Properties of /process *)

EventsOf(op) == {i \in 1..Len(events) : events[i].op = op}
Happened(op, outcome) == \E i \in EventsOf(op) : events[i].outcome = outcome

\* both the direct cut and the cut of the downloaded copy exited non-zero
CutFailed == Happened("cut", "fail") /\ Happened("fallback_cut", "fail")

\* C1 as stated: in a request with several segments the failed cut of one
\* segment is not fatal, the response still reports success.
C1_CutFailureNotFatal ==
    (pc = "done" /\ Len(Segments(req)) > 1 /\ CutFailed) => response.success

\* C1 amended: one run cuts only the selected segment, never the others, and
\* the failure of its cut (direct and fallback) is fatal: the run ends there
\* with a 500 error, no result entry and nothing published; a success
\* response carries exactly one entry, the selected segment's.
C1_CutFailureFatal ==
    /\ Cardinality(EventsOf("cut")) <= 1
    /\ Cardinality(EventsOf("fallback_cut")) <= 1
    /\ \A i \in EventsOf("cut") \cup EventsOf("fallback_cut") :
           events[i].duration = TargetSegment(req).end - TargetSegment(req).start
    /\ CutFailed =>
           /\ pc = "done"
           /\ response = ErrorResponse(500, "FFmpeg error")
           /\ results = <<>>
           /\ EventsOf("upload") = {}
           /\ EventsOf("burn") = {}
    /\ (pc = "done" /\ response.success) =>
           /\ Len(response.results) = 1
           /\ response.results[1].segment = OutputIdx(req)

C1_Witness ==
    /\ pc = "done"
    /\ req.segments.list = ThreeSegments
    /\ req.segment_index = IntIdx(1)
    /\ CutFailed

\* C2 as stated: when the subtitle tool exits non-zero, the file about to be
\* published is the un-captioned cut, which still exists, and a request that
\* ends in success has published that cut.
C2_BurnFailureFallsBack ==
    Happened("burn", "fail") =>
        /\ pc = "upload" => <<output_path, "cut">> \in files
        /\ (pc = "done" /\ response.success) =>
               \A i \in EventsOf("upload") : events[i].content = "cut"

C4_WorkspaceRemoved ==
    /\ (pc = "done" /\ tmpdir # "none") => (tmpdir = "removed" /\ files = {})
    /\ files # {} => tmpdir = "open"
    /\ pc \notin {"idle", "done"} => tmpdir = "open"

\* the early error return after a failed fallback cut, with files on disk before
C4_Witness ==
    /\ pc = "done"
    /\ tmpdir = "removed"
    /\ response.error = "FFmpeg error"
    /\ files = {}

\* C5 as stated: with no segment index named, every requested segment is
\* processed: segments [{0,5},{10,12}] without words yield two results, with
\* durations 5 and 2.
C5_AllSegments ==
    (/\ pc = "done"
     /\ response.success
     /\ req.segment_index = Absent
     /\ req.segments.list = TwoSegments
     /\ req.words = <<>>) =>
        /\ Len(response.results) = 2
        /\ response.results[1].duration = Sec(5)
        /\ response.results[2].duration = Sec(2)

\* C5 amended: with no segment index named the run processes segment 0 only;
\* a successful run has exactly one result, with duration = end - start of
\* the selected segment (5 for segments [{0,5},{10,12}]), and a segment
\* without words gets no caption file and no subtitle run.
C5_OneSegment ==
    /\ (pc = "done" /\ response.success) =>
           /\ Len(response.results) = 1
           /\ req.segment_index = Absent =>
                  response.results[1].duration
                      = req.segments.list[1].end - req.segments.list[1].start
           /\ req.segment_index \in {IntIdx(n) : n \in 0..MaxIdx} =>
                  response.results[1].duration
                      = req.segments.list[req.segment_index.val + 1].end
                        - req.segments.list[req.segment_index.val + 1].start
           /\ (req.segment_index = Absent /\ req.segments.list = TwoSegments) =>
                  response.results[1].duration = Sec(5)
    /\ (tmpdir # "none" /\ ~\E i \in 1..Len(req.words) :
            /\ req.words[i].start >= TargetSegment(req).start
            /\ req.words[i].start < TargetSegment(req).end) =>
           /\ ~Exists(files, AssPath(req))
           /\ markup = <<>>
           /\ EventsOf("burn") = {}

C5_Witness ==
    /\ pc = "done"
    /\ response.success
    /\ req.segment_index = Absent
    /\ req.segments.list = TwoSegments
    /\ req.words = <<>>
    /\ req.keywords = <<>>

\* C6 as stated: the cutting tool is never run with a duration that is zero
\* or negative, and no result with a non-positive duration is published.
C6_NoNonPositiveDuration ==
    /\ \A i \in EventsOf("cut") \cup EventsOf("fallback_cut") : events[i].duration > 0
    /\ \A k \in 1..Len(response.results) : response.results[k].duration > 0

\* C7 as stated: a request without segments or without video_url is rejected
\* with a client error, and no scratch directory, download, tool run or
\* upload happens.
C7_RejectedAsClientError ==
    (pc = "done" /\ (Len(Segments(req)) = 0 \/ req.video_url = NoUrl)) =>
        /\ response.status = 400
        /\ tmpdir = "none"
        /\ files = {}
        /\ events = <<>>

----------------------------------------------------------------------------
(* Properties of the caption operations *)

RECURSIVE Concat(_)
\* the sequences of a sequence, one after the other
Concat(seqs) == IF Len(seqs) = 0 THEN <<>> ELSE seqs[1] \o Concat(Tail(seqs))

CeilDiv(a, b) == (a + b - 1) \div b

\* the generator went through its chunking loop
Chunked ==
    /\ cpc = "done"
    /\ \/ cout.op = "ass"
       \/ cout.op = "srt" /\ cout.response.status \in {200, 500} /\ cin.s3

\* C8: a word list of length L is cut into exactly ceil(L / 4) chunks, each
\* of 1 to 4 words, that put together in order give back the word list; an
\* empty list gives no chunk.  Each chunk becomes one Dialogue event or one
\* numbered SRT block.
C8_Chunking ==
    /\ Chunked =>
           /\ Len(cout.chunks) = CeilDiv(Len(cin.words), 4)
           /\ \A k \in 1..Len(cout.chunks) :
                  Len(cout.chunks[k]) >= 1 /\ Len(cout.chunks[k]) <= 4
           /\ Concat(cout.chunks) = cin.words
           /\ Len(cout.lines) = Len(cout.chunks)
           /\ cin.words = <<>> => cout.chunks = <<>>
    /\ (cpc = "done" /\ cout.op = "srt" /\ cin.words = <<>>) =>
           cout.chunks = <<>> /\ cout.lines = <<>>

\* nine words: two full chunks and a last chunk of one word
C8_Witness ==
    /\ Chunked
    /\ cout.op = "ass"
    /\ Len(cin.words) = 9
    /\ Len(cout.chunks) = 3
    /\ Len(cout.chunks[3]) = 1

\* C9 as stated: a negative time is formatted as zero by both formatters, and
\* an SRT block that starts at a negative word time shows zero.
C9_NegativeClamped ==
    cpc = "done" =>
        /\ (cout.op = "srt_time" /\ cin.time < 0) => cout.text = "00:00:00,000"
        /\ (cout.op = "ass_time" /\ cin.time < 0) => cout.text = "0:00:00.00"
        /\ cout.op = "srt" =>
               \A k \in 1..Len(cout.lines) :
                   cout.chunks[k][1].start < 0 => cout.lines[k].start_time = "00:00:00,000"

----------------------------------------------------------------------------
(* Properties of the markup written by /process *)

\* the styled words of the markup, in the order they are written
Portions == Concat(Concat([k \in 1..Len(markup) |-> markup[k].lines]))

CountPortions(text, style) ==
    Cardinality({i \in 1..Len(Portions) : Portions[i].text = text /\ Portions[i].style = style})

\* case- and punctuation-normalized text
Normalized(text) == AlnumOnly(Lower(Strip(text)))

KeywordTexts == {req.keywords[i].text : i \in {j \in 1..Len(req.keywords) : req.keywords[j].str}}

\* the transcript words whose start lies in [start, end) of the selected segment
Belonging ==
    SelectSeq(req.words, LAMBDA w : /\ w.start >= TargetSegment(req).start
                                    /\ w.start < TargetSegment(req).end)

Scenario(words) ==
    /\ pc = "burn"
    /\ req.words = words
    /\ req.keywords = <<Kw(roma)>>
    /\ TargetSegment(req) = Seg(0, 1)

\* C10 as stated: for words [Roma 0..400, bella 400..900], keywords ["roma"]
\* and segment {0, 1} the markup has exactly one keyword-styled ROMA and
\* exactly one default-styled BELLA.
C10_ScenarioBothWords ==
    Scenario(WordsMs) =>
        /\ CountPortions(ROMA, "Keyword") = 1
        /\ CountPortions(BELLA, "Default") = 1

\* C10 amended: word times are compared with the segment bounds as given, so
\* of [Roma 0..400, bella 400..900] only Roma belongs to segment {0, 1}: the
\* markup has exactly one keyword-styled ROMA and no BELLA (with the times in
\* seconds, 0..0.4 and 0.4..0.9, it has one keyword-styled ROMA and one
\* default-styled BELLA).  In general every word with
\* start <= word.start < end appears exactly once, in transcript order,
\* keyword-styled iff its normalized text equals a normalized keyword.
C10_Markup ==
    /\ Scenario(WordsMs) =>
           /\ CountPortions(ROMA, "Keyword") = 1
           /\ CountPortions(ROMA, "Default") = 0
           /\ CountPortions(BELLA, "Default") = 0
           /\ CountPortions(BELLA, "Keyword") = 0
           /\ Len(Portions) = 1
    /\ Scenario(WordsSec) =>
           /\ CountPortions(ROMA, "Keyword") = 1
           /\ CountPortions(BELLA, "Default") = 1
           /\ Len(Portions) = 2
    /\ pc = "burn" =>
           /\ Len(Portions) = Len(Belonging)
           /\ \A i \in 1..Len(Portions) :
                  /\ Portions[i].text = Upper(Strip(Belonging[i].text))
                  /\ Portions[i].style \in {"Keyword", "Default"}
                  /\ Portions[i].style = "Keyword" <=>
                         \E kw \in KeywordTexts : Normalized(Belonging[i].text) = Normalized(kw)

C10_Witness ==
    /\ Scenario(WordsMs)
    /\ CountPortions(ROMA, "Keyword") = 1

\* the request passed the checks that come before the index check
IndexReached ==
    /\ pc # "idle"
    /\ ~ConversionRaises(req)
    /\ Len(Segments(req)) > 0
    /\ req.video_url # NoUrl
    /\ req.s3

\* C11 as stated: a segment is cut and published only when
\* 0 <= segment_index < len(segments); every other index, the negative ones
\* included, is answered with the 'out of range' client error before any tool
\* run or upload; the segment worked on is segments[segment_index] counted
\* from the front.
C11_IndexInRange ==
    IndexReached =>
        /\ (tmpdir # "none" \/ events # <<>>) =>
               /\ SegmentIdx(req) >= 0
               /\ SegmentIdx(req) < Len(Segments(req))
               /\ \A i \in EventsOf("cut") :
                      events[i].duration
                          = Segments(req)[SegmentIdx(req) + 1].end
                            - Segments(req)[SegmentIdx(req) + 1].start
        /\ (SegmentIdx(req) < 0 \/ SegmentIdx(req) >= Len(Segments(req))) =>
               /\ pc = "done"
               /\ response = ErrorResponse(400, "segment_index out of range")
               /\ events = <<>>

====
